---------------------------- MODULE Spec2Model ----------------------------
(***************************************************************************)
(* MeshCom frame codec of the LoRa433APRSTracker firmware.                 *)
(*                                                                         *)
(*   src/meshcom.py : position frame builder and its rolling sequence      *)
(*   src/code.py    : text frame builder, text frame parser, and the main  *)
(*                    send/receive loop                                    *)
(*                                                                         *)
(* Representation.                                                         *)
(*   bytes / bytearray  : a sequence of integers 0..255 (TLA+ index i is   *)
(*                        Python index i-1)                                *)
(*   str                : a sequence of code points                        *)
(*   None               : the empty sequence; an optional number v that is *)
(*                        present is <<v>>; for an optional str, None and  *)
(*                        "" are the same value (the code tests both with  *)
(*                        `x or default` / `x and len(x) > 0`)             *)
(*   32-bit quantities  : a record [hi, lo] of two 16-bit halves, which    *)
(*                        keeps the range 0..2^32-1 exact                  *)
(*   x & (2^k - 1)      : x % 2^k (Python integers are two's complement    *)
(*                        of unbounded width, % is the floored modulus)    *)
(*   coordinates        : integer hundredths of a degree, for which the    *)
(*                        float arithmetic of _coord_to_aprs and the       *)
(*                        "%.2f" rendering are exact                       *)
(*   altitude           : integer metres                                   *)
(***************************************************************************)
EXTENDS Integers, Sequences, FiniteSets, TLC

VARIABLES
    _mesh_sequence, \* meshcom.py global _mesh_sequence
    calls,          \* number of calls of _next_sequence since process start
                    \* (in the main loop: of transmit attempts explored)
    call,           \* the last call made: function, arguments, outcome
    msg_counter,    \* code.py msg_counter, a 32-bit quantity
    amp,            \* code.py amp.value, the power-amplifier enable line
    loraLED,        \* code.py loraLED.value
    rx_silence_counter,     \* code.py global rx_silence_counter
    rx_mode_check_counter   \* code.py global rx_mode_check_counter

\* the state of the main loop of code.py
loopVars == <<msg_counter, amp, loraLED, rx_silence_counter, rx_mode_check_counter>>

vars == <<_mesh_sequence, calls, call, msg_counter, amp, loraLED,
          rx_silence_counter, rx_mode_check_counter>>

\* None, and a present optional number v, as sequences
None == << >>
Some(v) == << v >>

-----------------------------------------------------------------------------
(* Python built-ins used by the code.                                      *)

Printable ==
    << " ", "!", "\"", "#", "$", "%", "&", "'", "(", ")", "*", "+", ",", "-",
       ".", "/", "0", "1", "2", "3", "4", "5", "6", "7", "8", "9", ":", ";",
       "<", "=", ">", "?", "@", "A", "B", "C", "D", "E", "F", "G", "H", "I",
       "J", "K", "L", "M", "N", "O", "P", "Q", "R", "S", "T", "U", "V", "W",
       "X", "Y", "Z", "[", "\\", "]", "^", "_", "grave", "a", "b", "c", "d", "e",
       "f", "g", "h", "i", "j", "k", "l", "m", "n", "o", "p", "q", "r", "s",
       "t", "u", "v", "w", "x", "y", "z", "{", "|", "}", "~" >>

\* ord(c) for a printable ASCII character (code 96 is written "grave")
OrdTable ==
    [c \in { Printable[i] : i \in 1..Len(Printable) } |->
        31 + CHOOSE i \in 1..Len(Printable) : Printable[i] = c]
Ord(c) == OrdTable[c]

\* a str literal, written as a tuple of characters
Str(cs) == [i \in 1..Len(cs) |-> Ord(cs[i])]

RECURSIVE Sum(_)
\* sum(data), by halves
Sum(data) ==
    IF data = << >> THEN 0
    ELSE IF Len(data) = 1 THEN data[1]
    ELSE LET half == Len(data) \div 2
         IN Sum(SubSeq(data, 1, half)) + Sum(SubSeq(data, half + 1, Len(data)))

RECURSIVE BitOr(_, _)
\* a | b for non-negative a, b
BitOr(a, b) ==
    IF a = 0 THEN b
    ELSE IF b = 0 THEN a
    ELSE (IF a % 2 = 1 \/ b % 2 = 1 THEN 1 ELSE 0) + 2 * BitOr(a \div 2, b \div 2)

Max(a, b) == IF a >= b THEN a ELSE b

\* str.encode("ascii"): raises UnicodeEncodeError on a code point above 127
IsAscii(s) == \A i \in 1..Len(s) : s[i] < 128

\* str.upper(), the characters with a one-character upper case (Unicode
\* 14.0): <<first, last, step, shift>> moves first, first + step, ..., last
\* by shift
UpperShift ==
    {
      <<97, 122, 1, -32>>, <<181, 181, 1, 743>>, <<224, 246, 1, -32>>,
      <<248, 254, 1, -32>>, <<255, 255, 1, 121>>, <<257, 303, 2, -1>>,
      <<305, 305, 1, -232>>, <<307, 311, 2, -1>>, <<314, 328, 2, -1>>,
      <<331, 375, 2, -1>>, <<378, 382, 2, -1>>, <<383, 383, 1, -300>>,
      <<384, 384, 1, 195>>, <<387, 389, 2, -1>>, <<392, 392, 1, -1>>,
      <<396, 396, 1, -1>>, <<402, 402, 1, -1>>, <<405, 405, 1, 97>>,
      <<409, 409, 1, -1>>, <<410, 410, 1, 163>>, <<414, 414, 1, 130>>,
      <<417, 421, 2, -1>>, <<424, 424, 1, -1>>, <<429, 429, 1, -1>>,
      <<432, 432, 1, -1>>, <<436, 438, 2, -1>>, <<441, 441, 1, -1>>,
      <<445, 445, 1, -1>>, <<447, 447, 1, 56>>, <<453, 453, 1, -1>>,
      <<454, 454, 1, -2>>, <<456, 456, 1, -1>>, <<457, 457, 1, -2>>,
      <<459, 459, 1, -1>>, <<460, 460, 1, -2>>, <<462, 476, 2, -1>>,
      <<477, 477, 1, -79>>, <<479, 495, 2, -1>>, <<498, 498, 1, -1>>,
      <<499, 499, 1, -2>>, <<501, 501, 1, -1>>, <<505, 543, 2, -1>>,
      <<547, 563, 2, -1>>, <<572, 572, 1, -1>>, <<575, 576, 1, 10815>>,
      <<578, 578, 1, -1>>, <<583, 591, 2, -1>>, <<592, 592, 1, 10783>>,
      <<593, 593, 1, 10780>>, <<594, 594, 1, 10782>>, <<595, 595, 1, -210>>,
      <<596, 596, 1, -206>>, <<598, 599, 1, -205>>, <<601, 601, 1, -202>>,
      <<603, 603, 1, -203>>, <<604, 604, 1, 42319>>, <<608, 608, 1, -205>>,
      <<609, 609, 1, 42315>>, <<611, 611, 1, -207>>, <<613, 613, 1, 42280>>,
      <<614, 614, 1, 42308>>, <<616, 616, 1, -209>>, <<617, 617, 1, -211>>,
      <<618, 618, 1, 42308>>, <<619, 619, 1, 10743>>, <<620, 620, 1, 42305>>,
      <<623, 623, 1, -211>>, <<625, 625, 1, 10749>>, <<626, 626, 1, -213>>,
      <<629, 629, 1, -214>>, <<637, 637, 1, 10727>>, <<640, 640, 1, -218>>,
      <<642, 642, 1, 42307>>, <<643, 643, 1, -218>>, <<647, 647, 1, 42282>>,
      <<648, 648, 1, -218>>, <<649, 649, 1, -69>>, <<650, 651, 1, -217>>,
      <<652, 652, 1, -71>>, <<658, 658, 1, -219>>, <<669, 669, 1, 42261>>,
      <<670, 670, 1, 42258>>, <<837, 837, 1, 84>>, <<881, 883, 2, -1>>,
      <<887, 887, 1, -1>>, <<891, 893, 1, 130>>, <<940, 940, 1, -38>>,
      <<941, 943, 1, -37>>, <<945, 961, 1, -32>>, <<962, 962, 1, -31>>,
      <<963, 971, 1, -32>>, <<972, 972, 1, -64>>, <<973, 974, 1, -63>>,
      <<976, 976, 1, -62>>, <<977, 977, 1, -57>>, <<981, 981, 1, -47>>,
      <<982, 982, 1, -54>>, <<983, 983, 1, -8>>, <<985, 1007, 2, -1>>,
      <<1008, 1008, 1, -86>>, <<1009, 1009, 1, -80>>, <<1010, 1010, 1, 7>>,
      <<1011, 1011, 1, -116>>, <<1013, 1013, 1, -96>>, <<1016, 1016, 1, -1>>,
      <<1019, 1019, 1, -1>>, <<1072, 1103, 1, -32>>, <<1104, 1119, 1, -80>>,
      <<1121, 1153, 2, -1>>, <<1163, 1215, 2, -1>>, <<1218, 1230, 2, -1>>,
      <<1231, 1231, 1, -15>>, <<1233, 1327, 2, -1>>, <<1377, 1414, 1, -48>>,
      <<4304, 4346, 1, 3008>>, <<4349, 4351, 1, 3008>>,
      <<5112, 5117, 1, -8>>, <<7296, 7296, 1, -6254>>,
      <<7297, 7297, 1, -6253>>, <<7298, 7298, 1, -6244>>,
      <<7299, 7300, 1, -6242>>, <<7301, 7301, 1, -6243>>,
      <<7302, 7302, 1, -6236>>, <<7303, 7303, 1, -6181>>,
      <<7304, 7304, 1, 35266>>, <<7545, 7545, 1, 35332>>,
      <<7549, 7549, 1, 3814>>, <<7566, 7566, 1, 35384>>,
      <<7681, 7829, 2, -1>>, <<7835, 7835, 1, -59>>, <<7841, 7935, 2, -1>>,
      <<7936, 7943, 1, 8>>, <<7952, 7957, 1, 8>>, <<7968, 7975, 1, 8>>,
      <<7984, 7991, 1, 8>>, <<8000, 8005, 1, 8>>, <<8017, 8023, 2, 8>>,
      <<8032, 8039, 1, 8>>, <<8048, 8049, 1, 74>>, <<8050, 8053, 1, 86>>,
      <<8054, 8055, 1, 100>>, <<8056, 8057, 1, 128>>, <<8058, 8059, 1, 112>>,
      <<8060, 8061, 1, 126>>, <<8112, 8113, 1, 8>>, <<8126, 8126, 1, -7205>>,
      <<8144, 8145, 1, 8>>, <<8160, 8161, 1, 8>>, <<8165, 8165, 1, 7>>,
      <<8526, 8526, 1, -28>>, <<8560, 8575, 1, -16>>, <<8580, 8580, 1, -1>>,
      <<9424, 9449, 1, -26>>, <<11312, 11359, 1, -48>>,
      <<11361, 11361, 1, -1>>, <<11365, 11365, 1, -10795>>,
      <<11366, 11366, 1, -10792>>, <<11368, 11372, 2, -1>>,
      <<11379, 11379, 1, -1>>, <<11382, 11382, 1, -1>>,
      <<11393, 11491, 2, -1>>, <<11500, 11502, 2, -1>>,
      <<11507, 11507, 1, -1>>, <<11520, 11557, 1, -7264>>,
      <<11559, 11559, 1, -7264>>, <<11565, 11565, 1, -7264>>,
      <<42561, 42605, 2, -1>>, <<42625, 42651, 2, -1>>,
      <<42787, 42799, 2, -1>>, <<42803, 42863, 2, -1>>,
      <<42874, 42876, 2, -1>>, <<42879, 42887, 2, -1>>,
      <<42892, 42892, 1, -1>>, <<42897, 42899, 2, -1>>,
      <<42900, 42900, 1, 48>>, <<42903, 42921, 2, -1>>,
      <<42933, 42947, 2, -1>>, <<42952, 42954, 2, -1>>,
      <<42961, 42961, 1, -1>>, <<42967, 42969, 2, -1>>,
      <<42998, 42998, 1, -1>>, <<43859, 43859, 1, -928>>,
      <<43888, 43967, 1, -38864>>, <<65345, 65370, 1, -32>>,
      <<66600, 66639, 1, -40>>, <<66776, 66811, 1, -40>>,
      <<66967, 67003, 2, -39>>, <<66968, 66977, 1, -39>>,
      <<66980, 66993, 1, -39>>, <<66996, 67001, 1, -39>>,
      <<67004, 67004, 1, -39>>, <<68800, 68850, 1, -64>>,
      <<71872, 71903, 1, -32>>, <<93792, 93823, 1, -32>>,
      <<125218, 125251, 1, -34>>
    }

\* str.upper(), the characters whose upper case is several characters
UpperSpecial ==
    {
      <<223, <<83, 83>>>>, <<329, <<700, 78>>>>, <<496, <<74, 780>>>>,
      <<912, <<921, 776, 769>>>>, <<944, <<933, 776, 769>>>>,
      <<1415, <<1333, 1362>>>>, <<7830, <<72, 817>>>>, <<7831, <<84, 776>>>>,
      <<7832, <<87, 778>>>>, <<7833, <<89, 778>>>>, <<7834, <<65, 702>>>>,
      <<8016, <<933, 787>>>>, <<8018, <<933, 787, 768>>>>,
      <<8020, <<933, 787, 769>>>>, <<8022, <<933, 787, 834>>>>,
      <<8064, <<7944, 921>>>>, <<8065, <<7945, 921>>>>,
      <<8066, <<7946, 921>>>>, <<8067, <<7947, 921>>>>,
      <<8068, <<7948, 921>>>>, <<8069, <<7949, 921>>>>,
      <<8070, <<7950, 921>>>>, <<8071, <<7951, 921>>>>,
      <<8072, <<7944, 921>>>>, <<8073, <<7945, 921>>>>,
      <<8074, <<7946, 921>>>>, <<8075, <<7947, 921>>>>,
      <<8076, <<7948, 921>>>>, <<8077, <<7949, 921>>>>,
      <<8078, <<7950, 921>>>>, <<8079, <<7951, 921>>>>,
      <<8080, <<7976, 921>>>>, <<8081, <<7977, 921>>>>,
      <<8082, <<7978, 921>>>>, <<8083, <<7979, 921>>>>,
      <<8084, <<7980, 921>>>>, <<8085, <<7981, 921>>>>,
      <<8086, <<7982, 921>>>>, <<8087, <<7983, 921>>>>,
      <<8088, <<7976, 921>>>>, <<8089, <<7977, 921>>>>,
      <<8090, <<7978, 921>>>>, <<8091, <<7979, 921>>>>,
      <<8092, <<7980, 921>>>>, <<8093, <<7981, 921>>>>,
      <<8094, <<7982, 921>>>>, <<8095, <<7983, 921>>>>,
      <<8096, <<8040, 921>>>>, <<8097, <<8041, 921>>>>,
      <<8098, <<8042, 921>>>>, <<8099, <<8043, 921>>>>,
      <<8100, <<8044, 921>>>>, <<8101, <<8045, 921>>>>,
      <<8102, <<8046, 921>>>>, <<8103, <<8047, 921>>>>,
      <<8104, <<8040, 921>>>>, <<8105, <<8041, 921>>>>,
      <<8106, <<8042, 921>>>>, <<8107, <<8043, 921>>>>,
      <<8108, <<8044, 921>>>>, <<8109, <<8045, 921>>>>,
      <<8110, <<8046, 921>>>>, <<8111, <<8047, 921>>>>,
      <<8114, <<8122, 921>>>>, <<8115, <<913, 921>>>>,
      <<8116, <<902, 921>>>>, <<8118, <<913, 834>>>>,
      <<8119, <<913, 834, 921>>>>, <<8124, <<913, 921>>>>,
      <<8130, <<8138, 921>>>>, <<8131, <<919, 921>>>>,
      <<8132, <<905, 921>>>>, <<8134, <<919, 834>>>>,
      <<8135, <<919, 834, 921>>>>, <<8140, <<919, 921>>>>,
      <<8146, <<921, 776, 768>>>>, <<8147, <<921, 776, 769>>>>,
      <<8150, <<921, 834>>>>, <<8151, <<921, 776, 834>>>>,
      <<8162, <<933, 776, 768>>>>, <<8163, <<933, 776, 769>>>>,
      <<8164, <<929, 787>>>>, <<8166, <<933, 834>>>>,
      <<8167, <<933, 776, 834>>>>, <<8178, <<8186, 921>>>>,
      <<8179, <<937, 921>>>>, <<8180, <<911, 921>>>>, <<8182, <<937, 834>>>>,
      <<8183, <<937, 834, 921>>>>, <<8188, <<937, 921>>>>,
      <<64256, <<70, 70>>>>, <<64257, <<70, 73>>>>, <<64258, <<70, 76>>>>,
      <<64259, <<70, 70, 73>>>>, <<64260, <<70, 70, 76>>>>,
      <<64261, <<83, 84>>>>, <<64262, <<83, 84>>>>,
      <<64275, <<1348, 1350>>>>, <<64276, <<1348, 1333>>>>,
      <<64277, <<1348, 1339>>>>, <<64278, <<1358, 1350>>>>,
      <<64279, <<1348, 1341>>>>
    }

\* str.upper() of one character, as a sequence
UpperChar(c) ==
    IF c < 128 THEN << IF c >= 97 /\ c <= 122 THEN c - 32 ELSE c >>
    ELSE IF \E p \in UpperSpecial : p[1] = c
         THEN (CHOOSE p \in UpperSpecial : p[1] = c)[2]
    ELSE IF \E r \in UpperShift : c >= r[1] /\ c <= r[2] /\ (c - r[1]) % r[3] = 0
         THEN << c + (CHOOSE r \in UpperShift :
                         c >= r[1] /\ c <= r[2] /\ (c - r[1]) % r[3] = 0)[4] >>
    ELSE << c >>

RECURSIVE Upper(_)
\* str.upper()
Upper(s) == IF s = << >> THEN << >> ELSE UpperChar(Head(s)) \o Upper(Tail(s))

\* text.lower().startswith("0x"): "0" is the lower case of itself only, "x"
\* of "x" and "X" only, and no character's lower case begins with either
LowerStartsWith0x(text) ==
    Len(text) >= 2 /\ text[1] = 48 /\ text[2] \in {88, 120}

\* the characters str.strip() removes (Unicode 14.0)
Whitespace ==
    {
      9, 10, 11, 12, 13, 28, 29, 30, 31, 32, 133, 160, 5760, 8192, 8193,
      8194, 8195, 8196, 8197, 8198, 8199, 8200, 8201, 8202, 8232, 8233, 8239,
      8287, 12288
    }

RECURSIVE Strip(_)
\* str.strip()
Strip(s) ==
    IF s = << >> THEN s
    ELSE IF Head(s) \in Whitespace THEN Strip(Tail(s))
    ELSE IF s[Len(s)] \in Whitespace THEN Strip(SubSeq(s, 1, Len(s) - 1))
    ELSE s

\* the code points of the digit zero of each decimal digit script (category
\* Nd, Unicode 14.0); the digits 1..9 of the script follow it
DecimalZeros ==
    {
      48, 1632, 1776, 1984, 2406, 2534, 2662, 2790, 2918, 3046, 3174, 3302,
      3430, 3558, 3664, 3792, 3872, 4160, 4240, 6112, 6160, 6470, 6608, 6784,
      6800, 6992, 7088, 7232, 7248, 42528, 43216, 43264, 43472, 43504, 43600,
      44016, 65296, 66720, 68912, 69734, 69872, 69942, 70096, 70384, 70736,
      70864, 71248, 71360, 71472, 71904, 72016, 72784, 73040, 73120, 92768,
      92864, 93008, 120782, 120792, 120802, 120812, 120822, 123200, 123632,
      125264, 130032
    }

\* what int() makes of a character before it parses: a decimal digit of any
\* script becomes the ASCII digit, a blank becomes a space, and any other
\* character from 127 on becomes "?"
ToAsciiDecimal(c) ==
    IF c < 127 THEN c
    ELSE IF c \in Whitespace THEN 32
    ELSE IF \E z \in DecimalZeros : c >= z /\ c <= z + 9
         THEN 48 + c - (CHOOSE z \in DecimalZeros : c >= z /\ c <= z + 9)
    ELSE 63

RECURSIVE ToAsciiDecimals(_)
\* the text int() parses
ToAsciiDecimals(s) ==
    IF s = << >> THEN << >>
    ELSE << ToAsciiDecimal(Head(s)) >> \o ToAsciiDecimals(Tail(s))

\* the blanks int() skips at both ends of the converted text
IntBlanks == {9, 10, 11, 12, 13, 32}

RECURSIVE IntStrip(_)
IntStrip(s) ==
    IF s = << >> THEN s
    ELSE IF Head(s) \in IntBlanks THEN IntStrip(Tail(s))
    ELSE IF s[Len(s)] \in IntBlanks THEN IntStrip(SubSeq(s, 1, Len(s) - 1))
    ELSE s

\* value of a digit character in the given base, -1 when it is none
DigitValue(c, base) ==
    LET v == IF c >= 48 /\ c <= 57 THEN c - 48
             ELSE IF c >= 97 /\ c <= 122 THEN c - 87
             ELSE IF c >= 65 /\ c <= 90 THEN c - 55
             ELSE -1
    IN IF v < base THEN v ELSE -1

RECURSIVE DigitsValue(_, _, _)
\* the number written by a non-empty run of digits, acc so far
DigitsValue(ds, base, acc) ==
    IF ds = << >> THEN acc
    ELSE DigitsValue(Tail(ds), base, acc * base + DigitValue(Head(ds), base))

\* sys.get_int_max_str_digits(): the most digits int() converts in base 10
INT_MAX_STR_DIGITS == 4300

\* int(): the digits after sign and prefix, with single underscores between
\* them: [ok, value]. In base 10 more than INT_MAX_STR_DIGITS digits, leading
\* zeros counted and underscores not, are a ValueError.
IntGrouped(grouped, base) ==
    IF /\ grouped # << >>
       /\ grouped[1] # 95
       /\ grouped[Len(grouped)] # 95
       /\ \A i \in 1..Len(grouped) :
             IF grouped[i] = 95 THEN grouped[i + 1] # 95
             ELSE DigitValue(grouped[i], base) >= 0
       /\ base = 10 => Len(SelectSeq(grouped, LAMBDA c : c # 95)) <= INT_MAX_STR_DIGITS
    THEN [ok |-> TRUE,
          value |-> DigitsValue(SelectSeq(grouped, LAMBDA c : c # 95), base, 0)]
    ELSE [ok |-> FALSE, value |-> 0]

\* int(): what follows the 0x prefix, which one underscore may begin
IntPrefixed(rest, base) ==
    IntGrouped(IF rest # << >> /\ Head(rest) = 95 THEN Tail(rest) ELSE rest, base)

\* int(): what follows the sign, with the 0x prefix base 16 allows
IntBody(body, base) ==
    IF base = 16 /\ Len(body) >= 2 /\ body[1] = 48 /\ body[2] \in {88, 120}
    THEN IntPrefixed(SubSeq(body, 3, Len(body)), base)
    ELSE IntGrouped(body, base)

\* int(): the converted text between the blanks, with its optional sign
IntSigned(ascii, base) ==
    IF ascii # << >> /\ Head(ascii) = 45
    THEN LET r == IntBody(Tail(ascii), base)
         IN [ok |-> r.ok, value |-> 0 - r.value]
    ELSE IF ascii # << >> /\ Head(ascii) = 43
    THEN IntBody(Tail(ascii), base)
    ELSE IntBody(ascii, base)

\* int(text, base) for base 10 or 16: [ok, value]; ok = FALSE is ValueError.
\* Grammar: blanks, optional sign, optional 0x prefix in base 16 that one
\* underscore may follow, then digits with single underscores between them
\* (in base 10 at most INT_MAX_STR_DIGITS of them), blanks.
IntOf(text, base) == IntSigned(IntStrip(ToAsciiDecimals(text)), base)

\* the decimal digits of n >= 0, zero-padded to at least width characters
RECURSIVE Decimal(_, _)
Decimal(n, width) ==
    IF n < 10 /\ width <= 1 THEN << 48 + n >>
    ELSE Append(Decimal(n \div 10, width - 1), 48 + (n % 10))

\* v & 0xFFFFFFFF of a Python int, as 16-bit halves
U32(v) == [lo |-> v % 65536, hi |-> (v \div 65536) % 65536]

\* (w >> shift) & 0xFF of a 32-bit w, shift in {0, 8, 16, 24}
ByteAt(w, shift) ==
    CASE shift = 0  -> w.lo % 256
      [] shift = 8  -> (w.lo \div 256) % 256
      [] shift = 16 -> w.hi % 256
      [] shift = 24 -> (w.hi \div 256) % 256

-----------------------------------------------------------------------------
(* src/meshcom.py                                                          *)

MAX_HOP_POS_DEFAULT == 2
MESH_DEFAULT_MOD == 3
HW_DEFAULT == 4
FW_VERSION_DEFAULT == 0
FW_SUBVERSION_SENTINEL == 35

\* _parse_node_id: node_id is an int ([type |-> "int", int |-> its value]) or
\* a str ([type |-> "str", text |-> its characters]); returns value & 0xFFFFFFFF
_parse_node_id(node_id) ==
    LET text   == Strip(node_id.text)
        base   == IF LowerStartsWith0x(text) THEN 16 ELSE 10
        parsed == IntOf(text, base)
        value  == IF node_id.type = "int" THEN node_id.int
                  ELSE IF parsed.ok THEN parsed.value
                  ELSE 0
    IN U32(value)

\* _coord_to_aprs: dec_coord in hundredths of a degree; the ddmm.mm value in
\* hundredths (degrees * 100.0 + minutes, minutes = fraction * 60.0)
_coord_to_aprs(dec_coord) ==
    LET a       == IF dec_coord < 0 THEN 0 - dec_coord ELSE dec_coord
        degrees == a \div 100
        minutes == (a - degrees * 100) * 60
    IN (degrees * 100) * 100 + minutes

\* "{:0<width>.2f}".format(x) for x >= 0 given in hundredths
FormatFixed2(x100, width) ==
    Decimal(x100 \div 100, width - 3) \o << 46 >> \o Decimal(x100 % 100, 2)

\* int(altitude * 3.2808399): the product truncated toward zero
AltFeet(altitude) ==
    LET m == IF altitude < 0 THEN 0 - altitude ELSE altitude
        q == 3 * m + (m * 2808399) \div 10000000
    IN IF altitude < 0 THEN 0 - q ELSE q

\* the "/A=" of line 76
AltitudePrefix == Str(<< "/", "A", "=" >>)

\* _build_payload: [raised, text]
_build_payload(fix, symbol) ==
    LET lat          == fix.lat
        lon          == fix.lon
        altitude     == fix.altitude
        lat_c        == IF lat[1] >= 0 THEN Ord("N") ELSE Ord("S")
        lon_c        == IF lon[1] >= 0 THEN Ord("E") ELSE Ord("W")
        lat_val      == _coord_to_aprs(lat[1])
        lon_val      == _coord_to_aprs(lon[1])
        symbol_table == IF Len(symbol) > 0 THEN symbol[1] ELSE Ord("/")
        symbol_code  == IF Len(symbol) > 1 THEN symbol[2] ELSE Ord(">")
        position     == FormatFixed2(lat_val, 7) \o << lat_c, symbol_table >>
                        \o FormatFixed2(lon_val, 8) \o << lon_c, symbol_code >>
        suffix       == IF altitude # None
                        THEN AltitudePrefix
                             \o Decimal(Max(0, AltFeet(altitude[1])), 6)
                        ELSE << >>
    IN IF lat = None \/ lon = None
       THEN [raised |-> "ValueError", text |-> << >>]
       ELSE [raised |-> "", text |-> position \o suffix]

\* the counter stored without the `& 0x3FF` of line 86
NoWrapSequence(sequence) == (sequence % 1024) + 1

\* _next_sequence, the stored counter after the call
NextSequenceStored(sequence) == ((sequence % 1024) + 1) % 1024

\* _next_sequence: [value returned, stored counter after the call]
_next_sequence(sequence) ==
    [value |-> sequence % 1024, stored |-> NextSequenceStored(sequence)]

\* _encode_header: msg_id is a 32-bit [hi, lo]
_encode_header(buffer, payload_type, msg_id, max_hop, source, destination) ==
    buffer
    \o << payload_type >>
    \o << ByteAt(msg_id, 0), ByteAt(msg_id, 8), ByteAt(msg_id, 16), ByteAt(msg_id, 24) >>
    \o << max_hop % 256 >>
    \o (source \o << Ord(">") >> \o destination \o << payload_type >>)

\* _append_payload
_append_payload(buffer, payload_text) == buffer \o payload_text

\* the checksum bytes in the byte order of the text frame
FcsLittleEndian(fcs_sum) == << fcs_sum % 256, (fcs_sum \div 256) % 256 >>

\* _finalize, the two checksum bytes appended after the modulation ID
FcsBytes(fcs_sum) == << (fcs_sum \div 256) % 256, fcs_sum % 256 >>

\* _finalize
_finalize(buffer, source_hw, source_mod, fw_version, last_hw, fw_subversion) ==
    LET summed == buffer \o << 0, source_hw % 256, source_mod % 256 >>
        fcs_sum == Sum(summed)
    IN summed
       \o FcsBytes(fcs_sum)
       \o << fw_version % 256, last_hw % 256 >>
       \o << IF fw_subversion = 0 THEN FW_SUBVERSION_SENTINEL ELSE fw_subversion % 256 >>
       \o << 126 >>

\* (gateway_id << 8) | sequence: the gateway ID shifted by a byte only
ShortShiftMsgId(gateway_id, sequence) ==
    [lo |-> BitOr((gateway_id % 256) * 256, sequence), hi |-> gateway_id \div 256]

\* (gateway_id << 10) | sequence as a 32-bit value, gateway_id below 2^22
ComposeMsgId(gateway_id, sequence) ==
    [lo |-> BitOr((gateway_id % 64) * 1024, sequence), hi |-> gateway_id \div 64]

\* the default source call sign of line 149
NOCALL == Str(<< "N", "O", "C", "A", "L", "L" >>)

\* build_mesh_position_frame, given the value _next_sequence returned:
\* [raised, frame]
build_mesh_position_frame(fix, node_id, callsign, symbol, sequence) ==
    LET parsed       == _parse_node_id(node_id)
        gateway_id   == (parsed.hi % 64) * 65536 + parsed.lo
        msg_id       == ComposeMsgId(gateway_id, sequence)
        source_call  == Upper(IF callsign # << >> THEN callsign ELSE NOCALL)
        payload      == _build_payload(fix, symbol)
        header       == _encode_header(<< >>, 33, msg_id, BitOr(MAX_HOP_POS_DEFAULT, 16),
                                       source_call, << Ord("*") >>)
        body         == _append_payload(header, payload.text)
    IN IF payload.raised # "" THEN [raised |-> payload.raised, frame |-> << >>]
       ELSE IF ~IsAscii(source_call) \/ ~IsAscii(payload.text)
       THEN [raised |-> "UnicodeEncodeError", frame |-> << >>]
       ELSE [raised |-> "",
             frame  |-> _finalize(body, HW_DEFAULT, MESH_DEFAULT_MOD,
                                  FW_VERSION_DEFAULT, HW_DEFAULT, 0)]

-----------------------------------------------------------------------------
(* Calls of src/meshcom.py.  Every action is one call of a function of the *)
(* module by the firmware; `call` records the call, the value it took from *)
(* _next_sequence (seq, -1 when it took none), the exception it raised     *)
(* ("" when none) and the bytes it returned.                               *)

\* longest run of _next_sequence calls explored
MaxCalls == 1030
\* number of frame builds explored from process start in SpecFrames
MaxBuilds == 2

NoCall == [fn |-> "", args |-> << >>, seq |-> -1, raised |-> "", result |-> << >>]

\* code.py at the first test of the loop condition: the outputs as lines 248
\* and 253 leave them, the globals of lines 185-186, msg_counter of line 332
LoopBoot ==
    /\ msg_counter = U32(1)
    /\ amp = FALSE
    /\ loraLED = FALSE
    /\ rx_silence_counter = 0
    /\ rx_mode_check_counter = 0

Init ==
    /\ _mesh_sequence = 0
    /\ calls = 0
    /\ call = NoCall
    /\ LoopBoot

Fix(lat, lon, altitude) == [lat |-> lat, lon |-> lon, altitude |-> altitude]
IntId(v) == [type |-> "int", int |-> v, text |-> << >>]
StrId(cs) == [type |-> "str", int |-> 0, text |-> Str(cs)]

\* fixes: complete with altitude, without latitude, without longitude
SeqFixes ==
    { Fix(Some(5050), Some(1025), Some(100)),
      Fix(None, Some(1025), None),
      Fix(Some(5050), None, Some(100)) }

\* node IDs of the calls explored over the whole range of the counter: integers
\* (in range, negative), hexadecimal text wider than 22 bits, and the unparsable
\* default of config.py
SeqNodeIds ==
    { IntId(63), IntId(-1),
      StrId(<< "0", "X", "f", "f", "f", "f", "f", "f" >>),
      StrId(<< "-", "-", "N", "O", "D", "E", "-", "-" >>) }

\* node IDs of the frames explored from process start: an integer wider than
\* 22 bits, hexadecimal text, padded decimal text, digits grouped by underscores
FrameNodeIds ==
    { IntId(4194305),
      StrId(<< "0", "x", "3", "F" >>),
      StrId(<< " ", "1", "2", "3", "4", "5", "6", "7", " " >>),
      StrId(<< "0", "x", "_", "f", "_", "f" >>) }

FrameFixes ==
    { Fix(Some(5050), Some(1025), Some(100)),
      Fix(Some(-125), Some(-7030), None),
      Fix(Some(0), Some(0), Some(-5)),
      Fix(Some(4807), Some(17959), Some(2)),
      Fix(Some(-8999), Some(1131), Some(0)),
      Fix(Some(4807), Some(1131), Some(764)),
      Fix(None, Some(1025), Some(2)),
      Fix(Some(5050), None, None) }

\* call signs: none, lower case, and "straße", whose upper case is ASCII
Callsigns ==
    { << >>, Str(<< "d", "n", "9", "a", "p", "w", "-", "8" >>),
      << 115, 116, 114, 97, 223, 101 >> }

Symbols == { << >>, Str(<< "/" >>), Str(<< "L", ">" >>) }

\* a direct call of _next_sequence()
NextSequenceCall ==
    /\ calls < MaxCalls
    /\ LET r == _next_sequence(_mesh_sequence)
       IN /\ _mesh_sequence' = r.stored
          /\ call' = [fn |-> "_next_sequence", args |-> << >>, seq |-> r.value,
                      raised |-> "", result |-> << >>]
    /\ calls' = calls + 1
    /\ UNCHANGED loopVars

\* build_mesh_position_frame(fix, node_id, callsign, symbol): line 148 takes the
\* sequence value before line 150 renders (or rejects) the payload
BuildPosition(fix, node_id, callsign, symbol) ==
    LET r == _next_sequence(_mesh_sequence)
        b == build_mesh_position_frame(fix, node_id, callsign, symbol, r.value)
    IN /\ _mesh_sequence' = r.stored
       /\ calls' = calls + 1
       /\ call' = [fn |-> "build_mesh_position_frame",
                   args |-> [fix |-> fix, node_id |-> node_id,
                             callsign |-> callsign, symbol |-> symbol],
                   seq |-> r.value, raised |-> b.raised, result |-> b.frame]
       /\ UNCHANGED loopVars

\* position reports of the tracker, over the whole range of the counter
PositionCall ==
    /\ calls < MaxCalls
    /\ \E fix \in SeqFixes, node_id \in SeqNodeIds :
          BuildPosition(fix, node_id, << >>, Str(<< "/" >>))

Next ==
    \/ NextSequenceCall
    \/ PositionCall

Spec == Init /\ [][Next]_vars

-----------------------------------------------------------------------------
(* src/code.py: the text frame builder and parser                          *)

HW_ID == 3
MOD_ID == 3

\* meshcom_fcs
meshcom_fcs(data) == Sum(data) % 65536

\* a Python int hi * 65536 + lo, 0 <= lo < 65536, of any width
Wide(hi, lo) == [hi |-> hi, lo |-> lo]

\* int(msg_id & 0xFFFFFFFF).to_bytes(4, "big")
BigEndianBytes(msg_id) ==
    LET w == [lo |-> msg_id.lo, hi |-> msg_id.hi % 65536]
    IN << ByteAt(w, 24), ByteAt(w, 16), ByteAt(w, 8), ByteAt(w, 0) >>

\* int(msg_id & 0xFFFFFFFF).to_bytes(4, "little")
MsgIdBytes(msg_id) ==
    LET w == [lo |-> msg_id.lo, hi |-> msg_id.hi % 65536]
    IN << ByteAt(w, 0), ByteAt(w, 8), ByteAt(w, 16), ByteAt(w, 24) >>

\* fcs.to_bytes(2, "little")
TextFcsBytes(frame) ==
    LET fcs == meshcom_fcs(frame)
    IN << fcs % 256, fcs \div 256 >>

\* build_meshcom_text_frame: [raised, frame]
build_meshcom_text_frame(source, dest, text, msg_id, max_hop, hw_id, mod_id) ==
    LET header_payload == source \o << Ord(">") >> \o dest \o << Ord(":") >> \o text
        frame == << Ord(":") >>
                 \o MsgIdBytes(msg_id)
                 \o << max_hop % 8 >>
                 \o header_payload
                 \o << 0 >>
                 \o << hw_id % 256 >>
                 \o << mod_id % 256 >>
    IN IF ~IsAscii(header_payload)
       THEN [raised |-> "UnicodeEncodeError", frame |-> << >>]
       ELSE [raised |-> "", frame |-> frame \o TextFcsBytes(frame) \o << Ord("#") >>]

\* packet.find(b'\x00'): the search without its start offset
FindAnywhere(packet, start) ==
    LET hits == { i \in 0..(Len(packet) - 1) : packet[i + 1] = 0 }
    IN IF hits = {} THEN -1 ELSE CHOOSE i \in hits : \A j \in hits : i <= j

\* packet.find(b'\x00', start): the first Python index >= start holding 0x00, else -1
Find0(packet, start) ==
    LET hits == { i \in start..(Len(packet) - 1) : packet[i + 1] = 0 }
    IN IF hits = {} THEN -1 ELSE CHOOSE i \in hits : \A j \in hits : i <= j

\* bytes.decode("ascii", errors="ignore"): bytes above 127 are dropped
DecodeIgnore(bs) == SelectSeq(bs, LAMBDA b : b < 128)

\* a subscript made without its length test
Unguarded(index, length) == TRUE

\* the conditions `payload_end + k < len(packet)` of lines 174-175
InPacket(index, length) == index < length

\* packet[index] inside the try block: the byte, or 0 for the else branch
ByteOr0(packet, index) ==
    IF InPacket(index, Len(packet)) THEN packet[index + 1] ELSE 0

\* the hop count of line 164
HopBits(byte) == byte % 8

\* parse_meshcom_frame:
\*   ret     the value returned
\*   log     the fields printed on success (<< >> otherwise)
\*   reads   the Python indices at which the call subscripts the packet
\*           (find and the slice of line 172 are bounded by the library)
\*   raised  TRUE when a subscript is outside the packet (IndexError, caught at
\*           line 180, which makes the call return False)
parse_meshcom_frame(packet) ==
    LET n           == Len(packet)
        payload_end == Find0(packet, 6)
        hw_at       == payload_end + 1
        mod_at      == payload_end + 2
        markers     == {0} \cup (IF packet[1] = Ord(":") THEN {n - 1} ELSE {})
        fields      == markers \cup (1..5)
        guarded     == (IF InPacket(hw_at, n) THEN {hw_at} ELSE {})
                       \cup (IF InPacket(mod_at, n) THEN {mod_at} ELSE {})
        rejected(reads) == [ret |-> FALSE, log |-> << >>, reads |-> reads, raised |-> FALSE]
    IN IF n < 15 THEN rejected({})
       ELSE IF packet[1] # Ord(":") \/ packet[n] # Ord("#") THEN rejected(markers)
       ELSE IF payload_end < 0 THEN rejected(fields)
       ELSE IF \E i \in guarded : i >= n
       THEN [ret |-> FALSE, log |-> << >>, reads |-> fields \cup guarded, raised |-> TRUE]
       ELSE [ret    |-> TRUE,
             log    |-> [msg_id         |-> [lo |-> BitOr(packet[2], packet[3] * 256),
                                             hi |-> BitOr(packet[4], packet[5] * 256)],
                         max_hop        |-> HopBits(packet[6]),
                         header_payload |-> DecodeIgnore(SubSeq(packet, 7, payload_end)),
                         hw_id          |-> ByteOr0(packet, hw_at),
                         mod_id         |-> ByteOr0(packet, mod_at)],
             reads  |-> fields \cup guarded,
             raised |-> FALSE]

-----------------------------------------------------------------------------
(* Calls of the frame builders on a range of arguments.                    *)

\* length of a buffer of 0xFF bytes whose byte sum passes 65535
LongBuffer == 260
\* length of an ASCII text of 0x7F characters whose byte sum passes 65535
LongText == 520

\* _finalize(buffer, source_hw, source_mod, fw_version, last_hw, fw_subversion)
FinalizeCall ==
    /\ \E buffer \in { << 33, 1, 0, 0, 0, 18 >>, << 255, 255, 255 >>,
                        [i \in 1..LongBuffer |-> 255] },
          source_hw \in { 4, 255, 260 },
          fw_version \in { FW_VERSION_DEFAULT },
          fw_subversion \in { 0, 1, 35, 255, 256, 291 } :
          call' = [fn |-> "_finalize",
                   args |-> [buffer |-> buffer, source_hw |-> source_hw,
                             source_mod |-> MESH_DEFAULT_MOD, fw_version |-> fw_version,
                             last_hw |-> source_hw, fw_subversion |-> fw_subversion],
                   seq |-> -1, raised |-> "",
                   result |-> _finalize(buffer, source_hw, MESH_DEFAULT_MOD,
                                        fw_version, source_hw, fw_subversion)]
    /\ UNCHANGED <<_mesh_sequence, calls>>
    /\ UNCHANGED loopVars

\* position reports over a range of fixes, node IDs, call signs and symbols
FramePositionCall ==
    /\ calls < MaxBuilds
    /\ \E fix \in FrameFixes, node_id \in FrameNodeIds, callsign \in Callsigns, symbol \in Symbols :
          BuildPosition(fix, node_id, callsign, symbol)

\* the arguments of a call of build_meshcom_text_frame
TextArgs(source, dest, text, msg_id, max_hop, hw_id, mod_id) ==
    [source |-> source, dest |-> dest, text |-> text, msg_id |-> msg_id,
     max_hop |-> max_hop, hw_id |-> hw_id, mod_id |-> mod_id]

BuildText(a) ==
    LET b == build_meshcom_text_frame(a.source, a.dest, a.text, a.msg_id,
                                      a.max_hop, a.hw_id, a.mod_id)
    IN /\ call' = [fn |-> "build_meshcom_text_frame", args |-> a, seq |-> -1,
                   raised |-> b.raised, result |-> b.frame]
       /\ UNCHANGED <<_mesh_sequence, calls>>
       /\ UNCHANGED loopVars

\* config.callsign (src/config.py)
config_callsign == Str(<< "-", "-", "C", "A", "L", "L", "-", "-" >>)

\* the call signs and message of src/code.py lines 32-38
SOURCE_CALLSIGN == Upper(config_callsign)
DEST_CALLSIGN == Str(<< "D", "N", "9", "A", "P", "W", "-", "9", "9" >>)
TEXT_MESSAGE ==
    Str(<< "M", "e", "s", "h", "C", "o", "m", " ", "T", "E", "S", "T", " ", "v", "o", "n", " " >>)
    \o SOURCE_CALLSIGN

\* the text frames of the main loop (msg_counter 1, 2, ..., 2^32 - 1), empty
\* frames, and a frame whose byte sum passes 65535
FrameTexts ==
    { TextArgs(SOURCE_CALLSIGN, DEST_CALLSIGN, TEXT_MESSAGE, Wide(hi, lo), 5, HW_ID, MOD_ID) :
        hi \in { 0, 1, 65535 }, lo \in { 1, 2, 65535 } }
    \cup { TextArgs(<< >>, << >>, << >>, Wide(0, 0), 0, hw, 0) : hw \in { 0, 255, 256 } }
    \cup { TextArgs(SOURCE_CALLSIGN, DEST_CALLSIGN, [i \in 1..LongText |-> 127],
                    Wide(65535, 65535), 7, 255, 255) }

TextVectorCall == \E a \in FrameTexts : BuildText(a)

NextFrames ==
    \/ FramePositionCall
    \/ FinalizeCall
    \/ TextVectorCall

SpecFrames == Init /\ [][NextFrames]_vars

-----------------------------------------------------------------------------
(* The text frame builder followed by the parser, on a range of arguments. *)

\* source and text of the example of src/code.py lines 3 and 31
VectorSource == Str(<< "D", "N", "9", "A", "P", "W", "-", "8" >>)
VectorText ==
    Str(<< "M", "e", "s", "h", "C", "o", "m", " ", "T", "E", "S", "T", " ", "v", "o", "n", " " >>)
    \o VectorSource

TextSources == { << >>, Str(<< "A" >>), VectorSource }
TextDests == { << >>, Str(<< "B" >>), DEST_CALLSIGN }
\* texts: empty, one character, with a NUL character inside, the message of
\* the example, and one that is not ASCII
TextTexts == { << >>, Str(<< "x" >>), << 104, 0, 105 >>, VectorText, << 252 >> }
\* message IDs: small, all ones, top bit set, and wider than 32 bits
TextMsgIds == { Wide(0, 0), Wide(0, 1), Wide(65535, 65535), Wide(32768, 256), Wide(65537, 2) }
TextHops == { 0, 5, 7, 13 }
TextIds == { 0, 3, 255 }

\* the builder's arguments are chosen before the first call
InitText ==
    /\ _mesh_sequence = 0
    /\ calls = 0
    /\ \E source \in TextSources, dest \in TextDests, text \in TextTexts,
          msg_id \in TextMsgIds, max_hop \in TextHops, hw_id \in TextIds, mod_id \in TextIds :
          call = [fn |-> "", args |-> TextArgs(source, dest, text, msg_id, max_hop, hw_id, mod_id),
                  seq |-> -1, raised |-> "", result |-> << >>]
    /\ LoopBoot

\* build_meshcom_text_frame on the chosen arguments
TextCall ==
    /\ call.fn = ""
    /\ BuildText(call.args)

\* parse_meshcom_frame(packet): call.result is what the parser yields
Parse(packet, roundtrip, built) ==
    /\ call' = [fn |-> "parse_meshcom_frame",
                args |-> [packet |-> packet, roundtrip |-> roundtrip, built |-> built],
                seq |-> -1, raised |-> "", result |-> parse_meshcom_frame(packet)]
    /\ UNCHANGED <<_mesh_sequence, calls>>
    /\ UNCHANGED loopVars

\* the frame just built is handed to parse_meshcom_frame
ParseBuiltCall ==
    /\ call.fn = "build_meshcom_text_frame"
    /\ call.raised = ""
    /\ Parse(call.result, TRUE, call.args)

NextText ==
    \/ TextCall
    \/ ParseBuiltCall

SpecText == InitText /\ [][NextText]_vars

-----------------------------------------------------------------------------
(* check_and_receive (src/code.py lines 188-227) from process start: what  *)
(* rfm9x.receive returns is handed to parse_meshcom_frame at line 214, and *)
(* `call` holds that call of the parser.                                   *)

\* longest received packet explored
MaxPacket == 17

\* a packet of length n: first and last byte as given, 0x00 at Python index
\* zero (-1: nowhere), and elsewhere letters with a non-ASCII byte at every
\* fifth index
Packet(n, first, last, zero) ==
    [i \in 1..n |->
        IF i - 1 = zero THEN 0
        ELSE IF i = 1 THEN first
        ELSE IF i = n THEN last
        ELSE IF i % 5 = 0 THEN 195
        ELSE 64 + i]

Packets ==
    { Packet(n, first, last, zero) :
        n \in {0, 1} \cup (14..MaxPacket),
        first \in { Ord(":"), Ord("!") },
        last \in { Ord("#"), 126 },
        zero \in {-1, 0, 5, 6, 7, 12, 13, 14, 15, 16} }

\* number of calls of check_and_receive explored from process start
MaxReceives == 4

\* what rfm9x.receive of line 207 does: returns None, returns a packet, raises
Received == { "None", "packet", "Exception" }

\* check_and_receive(), the two counters: line 196 counts every call and line
\* 197 restarts the count at 50 (the exceptions of lines 199-205 are
\* swallowed); a packet resets the count of silent calls (line 209), None
\* advances it and restarts it at 100 (lines 218-223), an exception of
\* rfm9x.receive leaves it (lines 224-226)
ReceiveCounters(received) ==
    /\ rx_mode_check_counter' =
          IF rx_mode_check_counter + 1 >= 50 THEN 0 ELSE rx_mode_check_counter + 1
    /\ rx_silence_counter' =
          CASE received = "packet" -> 0
            [] received = "None" ->
                 IF rx_silence_counter + 1 >= 100 THEN 0 ELSE rx_silence_counter + 1
            [] OTHER -> rx_silence_counter

\* check_and_receive(): the result of parse_meshcom_frame is not used (lines
\* 214-216)
check_and_receive(received) ==
    /\ ReceiveCounters(received)
    /\ UNCHANGED <<_mesh_sequence, calls, call, msg_counter, amp, loraLED>>

\* check_and_receive() when rfm9x.receive returns this packet
ReceivePacket(packet) ==
    /\ ReceiveCounters("packet")
    /\ call' = [fn |-> "parse_meshcom_frame",
                args |-> [packet |-> packet, roundtrip |-> FALSE, built |-> << >>],
                seq |-> -1, raised |-> "", result |-> parse_meshcom_frame(packet)]
    /\ UNCHANGED <<_mesh_sequence, calls, msg_counter, amp, loraLED>>

\* a call of check_and_receive in which a packet arrives
ParseCall ==
    /\ rx_mode_check_counter < MaxReceives
    /\ \E packet \in Packets : ReceivePacket(packet)

\* a call of check_and_receive in which none arrives
SilentCall ==
    /\ rx_mode_check_counter < MaxReceives
    /\ \E received \in { "None", "Exception" } : check_and_receive(received)

NextRx ==
    \/ ParseCall
    \/ SilentCall

SpecRx == Init /\ [][NextRx]_vars

-----------------------------------------------------------------------------
(* The main send/receive loop of src/code.py (lines 332-403). One step is  *)
(* one iteration of `while True`: the test of line 340, then the transmit  *)
(* branch (lines 341-397) or check_and_receive (line 400), then the pause  *)
(* of line 403. time.monotonic() enters as the time elapsed since last_tx. *)
(* `call` holds the last transmit attempt: the arguments of the frame      *)
(* built, the frame handed to rfm9x.send, and whether the attempt raised.  *)

\* config.hasPa (src/config.py)
hasPa == TRUE
\* seconds between two transmit attempts
INTERVAL_SEC == 15
\* now - last_tx in seconds at line 340
Elapsed == { 0, 14, 15, 16 }
\* number of transmit attempts explored
MaxAttempts == 4

\* the call inside the try block of lines 355-394 that raises ("" when none):
\* rfm9x.send of line 363, or rfm9x.idle / rfm9x.listen of lines 375-382,
\* whose exception lines 387-389 catch
Raises == { "", "rfm9x.send", "rfm9x.idle" }

\* msg_counter + 1 without the mask of line 396
NoMaskCounter(counter) ==
    [lo |-> (counter.lo + 1) % 65536, hi |-> counter.hi + ((counter.lo + 1) \div 65536)]

\* (msg_counter + 1) & 0xFFFFFFFF
NextMsgCounter(counter) ==
    [lo |-> (counter.lo + 1) % 65536,
     hi |-> (counter.hi + ((counter.lo + 1) \div 65536)) % 65536]

\* the arguments of build_meshcom_text_frame at lines 342-350
LoopFrameArgs(counter) ==
    TextArgs(SOURCE_CALLSIGN, DEST_CALLSIGN, TEXT_MESSAGE, counter, 5, HW_ID, MOD_ID)

\* a transmit attempt as `call` records it: the frame of lines 342-350 and the
\* exception that reached line 392 ("" when the try block completed)
Attempt(counter, raised) ==
    LET a == LoopFrameArgs(counter)
        b == build_meshcom_text_frame(a.source, a.dest, a.text, a.msg_id,
                                      a.max_hop, a.hw_id, a.mod_id)
    IN [fn |-> "rfm9x.send", args |-> a, seq |-> -1, raised |-> raised, result |-> b.frame]

\* lines 341-397. When rfm9x.send raises, control passes from line 363 to the
\* handler of lines 392-394, which writes neither output; an exception of
\* lines 375-382 is caught at line 387, after lines 369 and 371
Transmit(raises) ==
    /\ call' = Attempt(msg_counter, IF raises = "rfm9x.send" THEN "Exception" ELSE "")
    /\ loraLED' = (raises = "rfm9x.send")
    /\ amp' = IF hasPa THEN (raises = "rfm9x.send") ELSE amp
    /\ msg_counter' = NextMsgCounter(msg_counter)
    /\ calls' = calls + 1
    /\ UNCHANGED <<_mesh_sequence, rx_silence_counter, rx_mode_check_counter>>

\* an iteration that takes the branch of line 340
LoopTransmit ==
    /\ calls < MaxAttempts
    /\ \E elapsed \in Elapsed, raises \in Raises :
          /\ elapsed >= INTERVAL_SEC
          /\ Transmit(raises)

\* an iteration that takes the else branch of line 398
LoopReceive ==
    \E elapsed \in Elapsed, received \in Received :
        /\ elapsed < INTERVAL_SEC
        /\ check_and_receive(received)

\* the loop from process start, and from the state it is in after
\* 2^32 - 3 transmit attempts, the last of which was sent
InitLoop ==
    /\ _mesh_sequence = 0
    /\ calls = 0
    /\ amp = FALSE
    /\ loraLED = FALSE
    /\ rx_silence_counter = 0
    /\ rx_mode_check_counter = 0
    /\ \/ msg_counter = U32(1) /\ call = NoCall
       \/ msg_counter = Wide(65535, 65534) /\ call = Attempt(Wide(65535, 65533), "")

NextLoop ==
    \/ LoopTransmit
    \/ LoopReceive

SpecLoop == InitLoop /\ [][NextLoop]_vars

-----------------------------------------------------------------------------
(* Properties.                                                             *)

PositionBuilt(c) == c.fn = "build_mesh_position_frame" /\ c.raised = ""
PositionFailed(c) == c.fn = "build_mesh_position_frame" /\ c.raised = "ValueError"
TextBuilt(c) == c.fn = "build_meshcom_text_frame" /\ c.raised = ""
Finalized(c) == c.fn = "_finalize"
Parsed(c) == c.fn = "parse_meshcom_frame"

\* parseNodeId(node_id) & 0x3FFFFF
GatewayId(node_id) ==
    LET parsed == _parse_node_id(node_id)
    IN (parsed.hi % 64) * 65536 + parsed.lo

\* the low 10 bits and the upper 22 bits of the little-endian 32-bit integer
\* in bytes 1..4 (Python indices) of a frame
Low10(frame) == frame[2] + 256 * (frame[3] % 4)
High22(frame) == (frame[3] \div 4) + 64 * frame[4] + 16384 * frame[5]

\* C2: from process start the k-th call of _next_sequence returns (k - 1) mod
\* 1024, so that calls 1..1024 return 0..1023 in increasing order, each once,
\* and call 1025 returns 0 again; the stored counter is always in 0..1023.
C2_SequenceRolls ==
    /\ _mesh_sequence \in 0..1023
    /\ _mesh_sequence = calls % 1024
    /\ calls >= 1 => call.seq = (calls - 1) % 1024

\* the 1025th call has returned 0, after the 1024th had left the counter at 0
C2_Wrapped == calls = 1025 /\ call.fn = "_next_sequence" /\ call.seq = 0

\* C3: build_mesh_position_frame advances the sequence counter by one (mod
\* 1024) when it builds a frame, and a call that fails for a missing latitude
\* or longitude returns no buffer and leaves the counter unchanged.
C3_FailedBuildKeepsSequence ==
    [][ /\ PositionBuilt(call') => _mesh_sequence' = (_mesh_sequence + 1) % 1024
        /\ PositionFailed(call') => /\ call'.result = << >>
                                    /\ _mesh_sequence' = _mesh_sequence ]_vars

\* C6: bytes 1..4 of a position frame, little-endian, are
\* ((parseNodeId(node_id) & 0x3FFFFF) << 10) | s with s the counter before the
\* call; a build that directly follows a build for the same node ID has the
\* same upper 22 bits and the lower 10 bits advanced by one modulo 1024.
C6_MessageId ==
    [][ PositionBuilt(call') =>
          /\ Low10(call'.result) = _mesh_sequence
          /\ _mesh_sequence \in 0..1023
          /\ High22(call'.result) = GatewayId(call'.args.node_id)
          /\ (PositionBuilt(call) /\ call.args.node_id = call'.args.node_id) =>
                /\ High22(call'.result) = High22(call.result)
                /\ Low10(call'.result) = (Low10(call.result) + 1) % 1024 ]_vars

\* a frame built for node ID -1 (gateway 0x3FFFFF) with the last sequence value
\* before the wrap: message ID bytes FF FF FF FF
C6_LastBeforeWrap ==
    /\ PositionBuilt(call)
    /\ call.seq = 1023
    /\ call.args.node_id = IntId(-1)
    /\ SubSeq(call.result, 2, 5) = << 255, 255, 255, 255 >>

\* the arguments a round trip is claimed for: ASCII strings, a 32-bit message
\* ID, max_hop in 0..7, hw_id and mod_id in 0..255
InClaimedRange(a) ==
    /\ IsAscii(a.source) /\ IsAscii(a.dest) /\ IsAscii(a.text)
    /\ a.msg_id.hi \in 0..65535
    /\ a.max_hop \in 0..7
    /\ a.hw_id \in 0..255
    /\ a.mod_id \in 0..255

\* "<source>><dest>:<text>"
RoutingPayload(a) == a.source \o << 62 >> \o a.dest \o << 58 >> \o a.text

\* the parser accepted the frame and printed the builder's arguments
Recovered(a, parsed) ==
    /\ parsed.ret = TRUE
    /\ parsed.log.msg_id = a.msg_id
    /\ parsed.log.max_hop = a.max_hop
    /\ parsed.log.hw_id = a.hw_id
    /\ parsed.log.mod_id = a.mod_id
    /\ parsed.log.header_payload = RoutingPayload(a)

\* C1 as stated: for every ASCII source, dest and text, 32-bit msg_id, max_hop
\* in 0..7, hw_id and mod_id in 0..255, the build succeeds and
\* parse_meshcom_frame of the built frame succeeds and recovers msg_id,
\* max_hop, hw_id, mod_id and "<source>><dest>:<text>".
C1_RoundTripAnyAscii ==
    /\ (call.fn = "build_meshcom_text_frame" /\ InClaimedRange(call.args)) => call.raised = ""
    /\ (Parsed(call) /\ call.args.roundtrip /\ InClaimedRange(call.args.built)) =>
          Recovered(call.args.built, call.result)

\* C1 as amended: the same, for source, dest and text that hold no NUL
\* character and are not all three empty.
C1_RoundTrip ==
    /\ (call.fn = "build_meshcom_text_frame" /\ InClaimedRange(call.args)) => call.raised = ""
    /\ (/\ Parsed(call) /\ call.args.roundtrip /\ InClaimedRange(call.args.built)
        /\ \A i \in 1..Len(RoutingPayload(call.args.built)) : RoutingPayload(call.args.built)[i] # 0
        /\ Len(RoutingPayload(call.args.built)) >= 3) =>
          Recovered(call.args.built, call.result)

\* the shortest frame the parser accepts (15 bytes: one character in source,
\* dest and text together) came back whole, with every bit of the message ID set
C1_ShortestRoundTrip ==
    /\ Parsed(call) /\ call.args.roundtrip
    /\ Len(call.args.packet) = 15
    /\ call.args.built.msg_id = Wide(65535, 65535)
    /\ call.args.built.max_hop = 7
    /\ call.args.built.hw_id = 255
    /\ Recovered(call.args.built, call.result)

\* the frame of the fixed vector: source "DN9APW-8", dest "DN9APW-99", text
\* "MeshCom TEST von DN9APW-8", msg_id 1, max_hop 5, hw_id 3, mod_id 3
FixedVector == TextArgs(VectorSource, DEST_CALLSIGN, VectorText, Wide(0, 1), 5, 3, 3)
FixedVectorBuilt == TextBuilt(call) /\ call.args = FixedVector

\* 1+4+1+len(header+payload)+1+1+1+2+1
FixedVectorLength == 1 + 4 + 1 + Len(RoutingPayload(FixedVector)) + 1 + 1 + 1 + 2 + 1

\* C8 as stated: the frame of the fixed vector starts with 0x3A, has byte 5
\* equal to 0x01 and byte 6 equal to 0x05, ends with 0x23 and has the length
\* given; bytes are counted from 1 or from 0 (neither reading holds).
C8_FixedVectorByte5 ==
    FixedVectorBuilt =>
        /\ call.result[1] = 58
        /\ \E base \in {0, 1} : /\ call.result[5 + 1 - base] = 1
                                /\ call.result[6 + 1 - base] = 5
        /\ call.result[Len(call.result)] = 35
        /\ Len(call.result) = FixedVectorLength

\* C8 as amended: the message-ID low byte 0x01 is byte 2 (bytes counted from 1;
\* Python index 1), bytes 3..5 are the rest of the little-endian message ID,
\* and byte 6 is the hop byte 0x05.
C8_FixedVector ==
    FixedVectorBuilt =>
        /\ call.result[1] = 58
        /\ call.result[2] = 1
        /\ SubSeq(call.result, 3, 5) = << 0, 0, 0 >>
        /\ call.result[6] = 5
        /\ call.result[Len(call.result)] = 35
        /\ Len(call.result) = FixedVectorLength

\* the fixed vector has been built: 56 bytes
C8_VectorBuilt == FixedVectorBuilt /\ Len(call.result) = 56

\* a frame ending in the position trailer: <<..., 0x00, hw, mod, fcs (2),
\* fw_version, last_hw, fw_subversion, 0x7E>>
HasPositionTrailer(c) == PositionBuilt(c) \/ Finalized(c)

\* C4: the checksum field is the sum, modulo 65536, of all the bytes before it
\* (the 0x00 terminator, hardware ID and modulation ID are the last three of
\* them): little-endian in a text frame, big-endian in a position frame; what
\* follows the field is not summed.
C4_ChecksumCoversPrefix ==
    LET f == call.result
        n == Len(f)
    IN /\ TextBuilt(call) =>
            /\ f[n - 2] + 256 * f[n - 1] = Sum(SubSeq(f, 1, n - 3)) % 65536
            /\ SubSeq(f, n - 5, n - 3) = << 0, call.args.hw_id % 256, call.args.mod_id % 256 >>
            /\ f[n] = 35
       /\ HasPositionTrailer(call) =>
            /\ 256 * f[n - 5] + f[n - 4] = Sum(SubSeq(f, 1, n - 6)) % 65536
            /\ f[n - 8] = 0
            /\ f[n - 6] = MESH_DEFAULT_MOD
            /\ f[n] = 126

\* a finalized buffer whose byte sum passes 65535: the field holds the sum
\* reduced modulo 65536, high byte first, and the two bytes differ
C4_SumWraps ==
    /\ Finalized(call)
    /\ Sum(SubSeq(call.result, 1, Len(call.result) - 6)) > 65535
    /\ call.result[Len(call.result) - 5] # call.result[Len(call.result) - 4]

\* the fw_subversion argument of the call that made the trailer
FwSubversion(c) == IF Finalized(c) THEN c.args.fw_subversion ELSE 0

\* C7: the byte before the 0x7E end marker is 0x23 when the subversion is 0,
\* is never 0x00 whatever fw_subversion is passed to _finalize, and is 0x23 in
\* every frame build_mesh_position_frame returns.
C7_SubversionNeverZero ==
    HasPositionTrailer(call) =>
        /\ FwSubversion(call) = 0 => call.result[Len(call.result) - 1] = FW_SUBVERSION_SENTINEL
        /\ call.result[Len(call.result) - 1] # 0
        /\ PositionBuilt(call) => call.result[Len(call.result) - 1] = 35

\* round(metres * 3.2808399)
RoundFeet(metres) ==
    LET m == IF metres < 0 THEN 0 - metres ELSE metres
        q == 3 * m + (m * 2808399 + 5000000) \div 10000000
    IN IF metres < 0 THEN 0 - q ELSE q

\* C9: with an altitude in the fix, the payload ends in "/A=" and the six
\* digits of max(0, round(metres * 3.2808399)).
C9_AltitudeRounded ==
    (PositionBuilt(call) /\ call.args.fix.altitude # None) =>
        SubSeq(call.result, Len(call.result) - 17, Len(call.result) - 9)
            = << 47, 65, 61 >> \o Decimal(Max(0, RoundFeet(call.args.fix.altitude[1])), 6)

\* the reasons parse_meshcom_frame has to reject a packet
Causes(packet) ==
    (IF Len(packet) < 15 THEN {"too short"} ELSE {})
    \cup (IF Len(packet) >= 1 /\ packet[1] # 58 THEN {"bad start marker"} ELSE {})
    \cup (IF Len(packet) >= 1 /\ packet[Len(packet)] # 35 THEN {"bad end marker"} ELSE {})
    \cup (IF \A i \in 7..Len(packet) : packet[i] # 0 THEN {"missing terminator"} ELSE {})

\* C5: parse_meshcom_frame returns failure for a packet shorter than 15 bytes,
\* or whose first byte is not ':', or whose last byte is not '#', or with no
\* 0x00 at Python index 6 or later; it raises nothing and subscripts the
\* packet only inside it.
C5_ParseNeverRaises ==
    Parsed(call) =>
        /\ Causes(call.args.packet) # {} => call.result.ret = FALSE
        /\ call.result.raised = FALSE
        /\ call.raised = ""
        /\ call.result.reads \subseteq 0..(Len(call.args.packet) - 1)

\* a packet accepted with its 0x00 terminator directly before the '#': the
\* hardware ID read is the '#' itself and the modulation ID defaults to 0
C5_TerminatorBeforeEnd ==
    /\ Parsed(call)
    /\ call.result.ret = TRUE
    /\ call.args.packet[Len(call.args.packet) - 1] = 0
    /\ Find0(call.args.packet, 6) = Len(call.args.packet) - 2
    /\ call.result.log.hw_id = 35
    /\ call.result.log.mod_id = 0

\* C10: two packets rejected for different reasons (too short, bad start
\* marker, bad end marker, missing terminator) yield different results.
C10_ReasonsDistinguished ==
    [][ (/\ Parsed(call) /\ Parsed(call')
         /\ Causes(call.args.packet) # {} /\ Causes(call'.args.packet) # {}
         /\ Causes(call.args.packet) \cap Causes(call'.args.packet) = {}) =>
            call.result.ret # call'.result.ret ]_vars


(* The main loop.                                                          *)

\* a transmit attempt is the last thing the loop did
Attempted(c) == c.fn = "rfm9x.send"

\* the message ID a frame of the loop carries in bytes 2..5, as [hi, lo]
FrameMsgId(frame) == Wide(frame[4] + 256 * frame[5], frame[2] + 256 * frame[3])

\* the successor of a 32-bit value, 2^32 - 1 followed by 0
Succ32(w) ==
    IF w.lo < 65535 THEN Wide(w.hi, w.lo + 1)
    ELSE IF w.hi < 65535 THEN Wide(w.hi + 1, 0)
    ELSE Wide(0, 0)

\* C11: the amplifier enable line and the LoRa LED are both off in every
\* state between two iterations of the main loop, which is where an iteration
\* ends and where check_and_receive is called, whatever the outcome of the
\* transmit attempts made so far. The code leaves both on when rfm9x.send
\* raises: the handler of lines 392-394 switches neither off.
C11_AmpAndLedOff == amp = FALSE /\ loraLED = FALSE

\* C12: msg_counter is 1 until the first transmit attempt; every transmit
\* attempt, sent or raised, hands the radio a frame that carries msg_counter
\* as its message ID and then advances msg_counter by one modulo 2^32, so
\* that the frame's ID is the successor of the previous frame's ID; every
\* other iteration leaves msg_counter and the last frame as they are.
C12_CounterPerAttempt ==
    /\ [](~Attempted(call) => msg_counter = Wide(0, 1))
    /\ [][ IF calls' # calls
            THEN /\ Attempted(call')
                 /\ call'.raised \in { "", "Exception" }
                 /\ FrameMsgId(call'.result) = msg_counter
                 /\ msg_counter' = Succ32(msg_counter)
                 /\ Attempted(call) => FrameMsgId(call'.result) = Succ32(FrameMsgId(call.result))
            ELSE /\ msg_counter' = msg_counter
                 /\ call' = call ]_vars

\* the attempt with message ID 2^32 - 1 raised, and msg_counter is 0
C12_FailedSendAtWrap ==
    /\ Attempted(call)
    /\ call.raised = "Exception"
    /\ FrameMsgId(call.result) = Wide(65535, 65535)
    /\ msg_counter = Wide(0, 0)

=============================================================================
